---- MODULE Spec2Model ----
(***************************************************************************)
(* The submission orchestrator of frontend/src/App.tsx: the React state of *)
(* the App component, its event handlers, the asynchronous continuations   *)
(* of handleAnalyze and the interval callback of simulateUpload.           *)
(*                                                                         *)
(* Strings are sequences of one-character strings, so that trim() and      *)
(* toLowerCase() are computed and not assumed.  A JavaScript value is a    *)
(* record [t, s, n]: t is its type tag, s its characters when it is a      *)
(* string, n its magnitude when it is a number.                            *)
(*                                                                         *)
(* Not modelled: activeTab and isDragging, which no handler reads; the     *)
(* exit animation of AnimatePresence, during which a removed element is    *)
(* still displayed (an element is taken to be unmounted by the render that *)
(* no longer contains it).                                                 *)
(***************************************************************************)
EXTENDS Integers, Sequences, FiniteSets, TLC

(***************************************************************************)
(* Bounds of the model.                                                    *)
(***************************************************************************)
\* invocations of handleAnalyze in one run
MaxCalls == 2
\* intervals of simulateUpload alive at the same time
MaxIntervals == 1
\* the same, where the simulated upload is studied on its own
MaxTimers == 2
\* clause records in one response of the main specification
MaxClauses == 1

(***************************************************************************)
(* JavaScript values.                                                      *)
(***************************************************************************)
Undefined == [t |-> "undefined", s |-> <<>>, n |-> 0]
JsNull == [t |-> "null", s |-> <<>>, n |-> 0]
Str(chars) == [t |-> "string", s |-> chars, n |-> 0]
Num(k) == [t |-> "number", s |-> <<>>, n |-> k]

\* ToBoolean: undefined, null, '' and 0 are falsy
Truthy(v) ==
    CASE v.t = "undefined" -> FALSE
      [] v.t = "null" -> FALSE
      [] v.t = "string" -> Len(v.s) > 0
      [] v.t = "number" -> v.n # 0
      [] OTHER -> TRUE

\* a || b
Or(a, b) == IF Truthy(a) THEN a ELSE b

\* String.prototype.toLowerCase on one character (the letters the model uses)
LowerChar(c) ==
    CASE c = "H" -> "h"
      [] c = "I" -> "i"
      [] c = "G" -> "g"
      [] c = "L" -> "l"
      [] c = "O" -> "o"
      [] c = "W" -> "w"
      [] c = "X" -> "x"
      [] OTHER -> c

toLowerCase(chars) == [i \in DOMAIN chars |-> LowerChar(chars[i])]

IsSpace(c) == c \in {" ", "\t", "\n"}

RECURSIVE TrimStart(_)
TrimStart(chars) ==
    IF chars # <<>> /\ IsSpace(Head(chars)) THEN TrimStart(Tail(chars)) ELSE chars

RECURSIVE TrimEnd(_)
TrimEnd(chars) ==
    IF chars # <<>> /\ IsSpace(chars[Len(chars)])
    THEN TrimEnd(SubSeq(chars, 1, Len(chars) - 1))
    ELSE chars

\* String.prototype.trim
trim(chars) == TrimEnd(TrimStart(chars))

\* String(k) for the small positive integers used as positional ids
DigitChar(k) ==
    CASE k = 0 -> "0" [] k = 1 -> "1" [] k = 2 -> "2" [] k = 3 -> "3" [] k = 4 -> "4"
      [] k = 5 -> "5" [] k = 6 -> "6" [] k = 7 -> "7" [] k = 8 -> "8" [] OTHER -> "9"

RECURSIVE Digits(_)
Digits(k) == IF k < 10 THEN <<DigitChar(k)>> ELSE Digits(k \div 10) \o <<DigitChar(k % 10)>>

String(k) == Str(Digits(k))

(***************************************************************************)
(* The body of a standard-mode response, as response.json() yields it.     *)
(* data is [t, clauses]; clauses is [t, items]; an item is a clause record *)
(* [t, id, text, clause_text, risk_level, severity, explanation, reason].  *)
(***************************************************************************)
ClauseRecord(id, text, clause_text, risk_level, severity, explanation, reason) ==
    [t |-> "object", id |-> id, text |-> text, clause_text |-> clause_text,
     risk_level |-> risk_level, severity |-> severity,
     explanation |-> explanation, reason |-> reason]

\* an array entry that is no object: null, or a primitive such as a number
NonObjectEntry(tag) ==
    [t |-> tag, id |-> Undefined, text |-> Undefined, clause_text |-> Undefined,
     risk_level |-> Undefined, severity |-> Undefined,
     explanation |-> Undefined, reason |-> Undefined]

ArrayOf(items) == [t |-> "array", items |-> items]
NoArray(tag) == [t |-> tag, items |-> <<>>]
DataObject(clauses) == [t |-> "object", clauses |-> clauses]
DataNonObject(tag) == [t |-> tag, clauses |-> NoArray("undefined")]
\* a body that is no JSON text: response.json() rejects with a SyntaxError
DataUnparseable == [t |-> "unparseable", clauses |-> NoArray("undefined")]

\* clause.<name>: a property read of a primitive yields undefined
Field(clause, name) == IF clause.t = "object" THEN clause[name] ELSE Undefined

\* clause.risk_level || clause.severity || 'medium'
CategoryOf(clause) ==
    Or(Or(Field(clause, "risk_level"), Field(clause, "severity")), Str(<<"m", "e", "d", "i", "u", "m">>))

\* a map callback that reads the properties of null and undefined as undefined
MutClauseThrowsCategoryOnly(clause) == CategoryOf(clause).t # "string"

\* the map callback throws a TypeError: a property read of null/undefined, or
\* .toLowerCase() called on a value that is no string
ClauseThrows(clause) ==
    \/ clause.t \in {"null", "undefined"}
    \/ CategoryOf(clause).t # "string"

\* the map callback of transformedResults; index is the 0-based array index
MutTransformClauseNoAlt(clause, index) ==
    [id |-> Or(Field(clause, "id"), String(index + 1)),
     text |-> Or(Field(clause, "text"), Str(<<>>)),
     riskLevel |-> Str(toLowerCase(Or(Field(clause, "risk_level"), Str(<<"m", "e", "d", "i", "u", "m">>)).s)),
     explanation |-> Or(Field(clause, "explanation"), Str(<<>>))]

MutTransformClauseNoLower(clause, index) ==
    [id |-> Or(Field(clause, "id"), String(index + 1)),
     text |-> Or(Or(Field(clause, "text"), Field(clause, "clause_text")), Str(<<>>)),
     riskLevel |-> Str(CategoryOf(clause).s),
     explanation |-> Or(Or(Field(clause, "explanation"), Field(clause, "reason")), Str(<<>>))]

\* a map callback that takes the array index itself as the fallback id
MutTransformClauseZeroBased(clause, index) ==
    [id |-> Or(Field(clause, "id"), String(index)),
     text |-> Or(Or(Field(clause, "text"), Field(clause, "clause_text")), Str(<<>>)),
     riskLevel |-> Str(toLowerCase(CategoryOf(clause).s)),
     explanation |-> Or(Or(Field(clause, "explanation"), Field(clause, "reason")), Str(<<>>))]

transformClause(clause, index) ==
    [id |-> Or(Field(clause, "id"), String(index + 1)),
     text |-> Or(Or(Field(clause, "text"), Field(clause, "clause_text")), Str(<<>>)),
     riskLevel |-> Str(toLowerCase(CategoryOf(clause).s)),
     explanation |-> Or(Or(Field(clause, "explanation"), Field(clause, "reason")), Str(<<>>))]

\* data.clauses.map(...), without the optional chaining
MutTransformThrowsNoChaining(data) ==
    \/ data.t \in {"null", "undefined"}
    \/ /\ data.t = "object"
       /\ \/ data.clauses.t # "array"
          \/ \E i \in DOMAIN data.clauses.items : ClauseThrows(data.clauses.items[i])

\* evaluating data.clauses?.map(...) || [] throws a TypeError
TransformThrows(data) ==
    \/ data.t \in {"null", "undefined"}
    \/ /\ data.t = "object"
       /\ \/ data.clauses.t \notin {"undefined", "null", "array"}
          \/ /\ data.clauses.t = "array"
             /\ \E i \in DOMAIN data.clauses.items : ClauseThrows(data.clauses.items[i])

\* data.clauses?.map((clause, index) => ...) || [], when it does not throw
transformedResults(data) ==
    IF data.t = "object" /\ data.clauses.t = "array"
    THEN [i \in DOMAIN data.clauses.items |-> transformClause(data.clauses.items[i], i - 1)]
    ELSE <<>>

(***************************************************************************)
(* The inputs the user and the server can supply.                          *)
(***************************************************************************)
PdfType == "application/pdf"
DocxType == "application/vnd.openxmlformats-officedocument.wordprocessingml.document"
TxtType == "text/plain"
\* a file is represented by its declared content type (file.type)
FileTypes == {PdfType, DocxType, TxtType, "image/png"}
\* null, as the value of selectedFile
Null == "null"
\* the k-th URL made by URL.createObjectURL, and null as the value of audioUrl
ObjectUrl(k) == [blob |-> k]
NullUrl == [blob |-> 0]

\* values of the textarea: empty, whitespace only, text with surrounding blanks
Texts == {<<>>, <<" ">>, <<" ", "a">>}

HighRecord ==
    ClauseRecord(Str(<<"7">>), Str(<<"a">>), Undefined, Str(<<"H", "I", "G", "H">>),
                 Undefined, Str(<<"b">>), Undefined)
AltRecord ==
    ClauseRecord(Undefined, Undefined, Str(<<"a">>), Undefined,
                 Str(<<"L", "o", "w">>), Undefined, Str(<<"b">>))
\* response bodies of the main specifications: well-formed ones (no clause,
\* one clause, two clauses), one without a clauses field, and one on which the
\* transformation throws
Payloads ==
    {DataObject(ArrayOf(items)) : items \in {<<>>, <<HighRecord>>, <<AltRecord, HighRecord>>}}
        \cup {DataObject(NoArray("undefined")), DataNonObject("null")}

(***************************************************************************)
(* State.                                                                  *)
(***************************************************************************)
VARIABLES
    selectedFile,    \* useState<File | null>: Null or a file
    pastedText,      \* useState(''): the textarea's characters
    isAnalyzing,     \* useState(false)
    results,         \* useState<Clause[]>([])
    uploadProgress,  \* useState(0)
    podcastMode,     \* useState(false)
    audioUrl,        \* useState<string | null>: NullUrl or an object URL
    isPlaying,       \* useState(false)
    audioEl,         \* the <audio> element behind audioRef: [mounted, paused, currentTime]
    intervals,       \* number of setInterval timers of simulateUpload still alive
    inflight,        \* requests dispatched by fetch and not yet settled, with the
                     \* values the suspended handleAnalyze closure holds
    objectUrls,      \* number of URL.createObjectURL calls so far
    alerts,          \* number of alert() calls so far
    calls,           \* number of handleAnalyze invocations so far
    fetches,         \* number of fetch() calls so far
    jsonBody,        \* the parsed body of the response studied by SpecTransform (not
                     \* tracked by the other specifications)
    revokedUrls      \* the object URLs released by URL.revokeObjectURL so far

vars == <<selectedFile, pastedText, isAnalyzing, results, uploadProgress, podcastMode,
          audioUrl, isPlaying, audioEl, intervals, inflight, objectUrls, alerts, calls,
          fetches, jsonBody, revokedUrls>>

NoElement == [mounted |-> FALSE, paused |-> TRUE, currentTime |-> 0]
NoData == DataNonObject("undefined")

Init ==
    /\ selectedFile = Null
    /\ pastedText = <<>>
    /\ isAnalyzing = FALSE
    /\ results = <<>>
    /\ uploadProgress = 0
    /\ podcastMode = FALSE
    /\ audioUrl = NullUrl
    /\ isPlaying = FALSE
    /\ audioEl = NoElement
    /\ intervals = 0
    /\ inflight = <<>>
    /\ objectUrls = 0
    /\ alerts = 0
    /\ calls = 0
    /\ fetches = 0
    /\ jsonBody = NoData
    /\ revokedUrls = {}

(***************************************************************************)
(* File selection, text editing and the mode toggle.                       *)
(***************************************************************************)
\* simulateUpload: setUploadProgress(0) and one more interval
simulateUpload ==
    /\ uploadProgress' = 0
    /\ intervals' = intervals + 1

\* the threshold and the increment of the simulated progress
ProgressDone == 100
ProgressStep == 10

\* an interval callback that stops only above the threshold
MutIntervalTickStopsAbove ==
    /\ intervals > 0
    /\ IF uploadProgress > ProgressDone
       THEN uploadProgress' = ProgressDone /\ intervals' = intervals - 1
       ELSE uploadProgress' = uploadProgress + ProgressStep /\ intervals' = intervals
    /\ UNCHANGED <<selectedFile, pastedText, isAnalyzing, results, podcastMode, audioUrl,
                   isPlaying, audioEl, inflight, objectUrls, alerts, calls, fetches,
                   jsonBody, revokedUrls>>

\* the interval callback: setUploadProgress(prev => ...), clearInterval at 100
IntervalTick ==
    /\ intervals > 0
    /\ IF uploadProgress >= ProgressDone
       THEN uploadProgress' = ProgressDone /\ intervals' = intervals - 1
       ELSE uploadProgress' = uploadProgress + ProgressStep /\ intervals' = intervals
    /\ UNCHANGED <<selectedFile, pastedText, isAnalyzing, results, podcastMode, audioUrl,
                   isPlaying, audioEl, inflight, objectUrls, alerts, calls, fetches, jsonBody, revokedUrls>>

\* onChange of the file input; file is e.target.files?.[0], any type the user picks
handleFileChange(file) ==
    /\ file # Null
    /\ selectedFile' = file
    /\ simulateUpload
    /\ UNCHANGED <<pastedText, isAnalyzing, results, podcastMode, audioUrl, isPlaying,
                   audioEl, inflight, objectUrls, alerts, calls, fetches, jsonBody, revokedUrls>>

\* the type test of handleDrop
DropAccepts(file) ==
    file # Null /\ (file = PdfType \/ file = DocxType \/ file = TxtType)

\* onDrop of the drop zone; file is e.dataTransfer.files[0]
handleDrop(file) ==
    /\ DropAccepts(file)
    /\ selectedFile' = file
    /\ simulateUpload
    /\ UNCHANGED <<pastedText, isAnalyzing, results, podcastMode, audioUrl, isPlaying,
                   audioEl, inflight, objectUrls, alerts, calls, fetches, jsonBody, revokedUrls>>

\* onChange of the textarea
setPastedText(text) ==
    /\ pastedText' = text
    /\ UNCHANGED <<selectedFile, isAnalyzing, results, uploadProgress, podcastMode, audioUrl,
                   isPlaying, audioEl, intervals, inflight, objectUrls, alerts, calls,
                   fetches, jsonBody, revokedUrls>>

\* a podcast toggle that also drops what was computed
MutTogglePodcastModeClears ==
    /\ podcastMode' = ~podcastMode
    /\ results' = <<>>
    /\ UNCHANGED <<selectedFile, pastedText, isAnalyzing, uploadProgress, audioUrl,
                   isPlaying, audioEl, intervals, inflight, objectUrls, alerts, calls,
                   fetches, jsonBody, revokedUrls>>

\* onClick of the podcast toggle: setPodcastMode(!podcastMode)
togglePodcastMode ==
    /\ podcastMode' = ~podcastMode
    /\ UNCHANGED <<selectedFile, pastedText, isAnalyzing, results, uploadProgress, audioUrl,
                   isPlaying, audioEl, intervals, inflight, objectUrls, alerts, calls,
                   fetches, jsonBody, revokedUrls>>

(***************************************************************************)
(* handleAnalyze up to its await: the guard, setIsAnalyzing(true), fetch.  *)
(***************************************************************************)
\* !selectedFile && !pastedText.trim()
MutNoInputUntrimmed(file, text) == file = Null /\ text = <<>>

NoInput(file, text) == file = Null /\ trim(text) = <<>>

\* a guard that also returns while a request is in flight
MutGuardReturnsWhileBusy(file, text) == NoInput(file, text) \/ isAnalyzing

\* the guard of handleAnalyze returns early
GuardReturns(file, text) == NoInput(file, text)

\* the request fetch is called with; podcast is the podcastMode of the closure,
\* which also decides how the response is read
MutRequestOfTextFirst(podcast, file, text) ==
    IF trim(text) = <<>>
    THEN [podcast |-> podcast,
          url |-> IF podcast THEN "/conversation_clauses_file" ELSE "/get_clauses",
          body |-> "multipart", file |-> file, text |-> <<>>]
    ELSE [podcast |-> podcast,
          url |-> IF podcast THEN "/conversation_clauses" ELSE "/get_clauses",
          body |-> "json", file |-> Null, text |-> text]

RequestOf(podcast, file, text) ==
    IF podcast
    THEN IF file # Null
         THEN [podcast |-> TRUE, url |-> "/conversation_clauses_file",
               body |-> "multipart", file |-> file, text |-> <<>>]
         ELSE [podcast |-> TRUE, url |-> "/conversation_clauses",
               body |-> "json", file |-> Null, text |-> text]
    ELSE IF file # Null
         THEN [podcast |-> FALSE, url |-> "/get_clauses",
               body |-> "multipart", file |-> file, text |-> <<>>]
         ELSE [podcast |-> FALSE, url |-> "/get_clauses",
               body |-> "json", file |-> Null, text |-> text]

handleAnalyze ==
    /\ calls < MaxCalls
    /\ calls' = calls + 1
    /\ IF GuardReturns(selectedFile, pastedText)
       THEN UNCHANGED <<isAnalyzing, inflight, fetches>>
       ELSE /\ isAnalyzing' = TRUE
            /\ inflight' = Append(inflight, RequestOf(podcastMode, selectedFile, pastedText))
            /\ fetches' = fetches + 1
    /\ UNCHANGED <<selectedFile, pastedText, results, uploadProgress, podcastMode, audioUrl,
                   isPlaying, audioEl, intervals, objectUrls, alerts, jsonBody, revokedUrls>>

\* the disabled attribute of the Analyze button
MutAnalyzeDisabledNoBusy(file, text, analyzing) == NoInput(file, text)

AnalyzeDisabled(file, text, analyzing) == NoInput(file, text) \/ analyzing

\* a click on the Analyze button
AnalyzeClick ==
    /\ ~AnalyzeDisabled(selectedFile, pastedText, isAnalyzing)
    /\ handleAnalyze

\* handleAnalyze called otherwise than through the button
AnalyzeDirect == handleAnalyze

(***************************************************************************)
(* handleAnalyze after its await: one continuation per in-flight request.  *)
(* Nothing reads or writes the state between the resolution of fetch and   *)
(* that of response.blob() / response.json(), so both awaits are one step. *)
(***************************************************************************)
Remove(q, i) == SubSeq(q, 1, i - 1) \o SubSeq(q, i + 1, Len(q))

\* the value setIsAnalyzing receives in the finally block
MutFinallyKeepsAnalyzing(analyzing) == analyzing

FinallyIsAnalyzing(analyzing) == FALSE

\* the number of alert() calls of the catch block
MutCatchSilent(n) == n

CatchAlerts(n) == n + 1

\* a catch that sends the request again instead of giving up
MutFailedRetries(i) ==
    /\ fetches' = fetches + 1
    /\ UNCHANGED <<selectedFile, pastedText, isAnalyzing, results, uploadProgress,
                   podcastMode, audioUrl, isPlaying, audioEl, intervals, inflight,
                   objectUrls, alerts, calls, jsonBody, revokedUrls>>

\* catch and finally: console.error, alert, setIsAnalyzing(false)
Failed(i) ==
    /\ alerts' = CatchAlerts(alerts)
    /\ isAnalyzing' = FinallyIsAnalyzing(isAnalyzing)
    /\ inflight' = Remove(inflight, i)
    /\ UNCHANGED <<selectedFile, pastedText, results, uploadProgress, podcastMode, audioUrl,
                   isPlaying, audioEl, intervals, objectUrls, calls, fetches, jsonBody, revokedUrls>>

\* fetch rejects: no connection, CORS, ...
FetchRejects(i) ==
    /\ i \in DOMAIN inflight
    /\ Failed(i)

\* fetch resolves with a response whose ok is false: throw new Error(...)
ResponseNotOk(i) ==
    /\ i \in DOMAIN inflight
    /\ Failed(i)

\* response.blob() or response.json() rejects: the body cannot be read or parsed
BodyRejects(i) ==
    /\ i \in DOMAIN inflight
    /\ Failed(i)

\* the <audio> element after a render with the given audioUrl: rendered only
\* when audioUrl is set; a new src reloads it (paused, position 0); when it is
\* no longer rendered the element object keeps its last playback state
Rendered(el, url) ==
    IF url = NullUrl
    THEN [el EXCEPT !.mounted = FALSE]
    ELSE [mounted |-> TRUE, paused |-> TRUE, currentTime |-> 0]

\* setResults of the podcast branch
MutPodcastKeepsResults(old) == old

PodcastResults(old) == <<>>

\* setResults of the standard branch
MutStandardAppends(old, transformed) == old \o transformed

StandardResults(old, transformed) == transformed

\* setAudioUrl of the standard branch
MutStandardKeepsAudio(old) == old

StandardAudioUrl(old) == NullUrl

\* a continuation that reads the response as audio when podcast mode is on at
\* the time of the response
MutBlobResolvesCurrentMode(i) ==
    /\ i \in DOMAIN inflight
    /\ podcastMode
    /\ objectUrls' = objectUrls + 1
    /\ audioUrl' = ObjectUrl(objectUrls + 1)
    /\ results' = PodcastResults(results)
    /\ audioEl' = Rendered(audioEl, audioUrl')
    /\ isAnalyzing' = FinallyIsAnalyzing(isAnalyzing)
    /\ inflight' = Remove(inflight, i)
    /\ UNCHANGED <<selectedFile, pastedText, uploadProgress, podcastMode, isPlaying,
                   intervals, alerts, calls, fetches, jsonBody, revokedUrls>>

\* podcast mode, response ok, blob read: createObjectURL, setAudioUrl, setResults([])
BlobResolves(i) ==
    /\ i \in DOMAIN inflight
    /\ inflight[i].podcast
    /\ objectUrls' = objectUrls + 1
    /\ audioUrl' = ObjectUrl(objectUrls + 1)
    /\ results' = PodcastResults(results)
    /\ audioEl' = Rendered(audioEl, audioUrl')
    /\ isAnalyzing' = FinallyIsAnalyzing(isAnalyzing)
    /\ inflight' = Remove(inflight, i)
    /\ UNCHANGED <<selectedFile, pastedText, uploadProgress, podcastMode, isPlaying,
                   intervals, alerts, calls, fetches, jsonBody, revokedUrls>>

\* standard mode, response ok, body parsed as data: transform, setResults,
\* setAudioUrl(null); a TypeError of the transformation goes to catch
JsonResolves(i, data) ==
    /\ i \in DOMAIN inflight
    /\ ~inflight[i].podcast
    /\ IF TransformThrows(data)
       THEN Failed(i)
       ELSE /\ results' = StandardResults(results, transformedResults(data))
            /\ audioUrl' = StandardAudioUrl(audioUrl)
            /\ audioEl' = Rendered(audioEl, audioUrl')
            /\ isAnalyzing' = FinallyIsAnalyzing(isAnalyzing)
            /\ inflight' = Remove(inflight, i)
            /\ UNCHANGED <<selectedFile, pastedText, uploadProgress, podcastMode,
                           isPlaying, intervals, objectUrls, alerts, calls, fetches, jsonBody, revokedUrls>>

(***************************************************************************)
(* Clear and the audio player.                                             *)
(***************************************************************************)
\* the Clear buttons are rendered
ClearVisible ==
    selectedFile # Null \/ pastedText # <<>> \/ Len(results) > 0 \/ audioUrl # NullUrl

\* handleClear without the rewind of the element behind audioRef
MutHandleClearNoRewind ==
    /\ ClearVisible
    /\ selectedFile' = Null
    /\ pastedText' = <<>>
    /\ results' = <<>>
    /\ uploadProgress' = 0
    /\ audioUrl' = NullUrl
    /\ isPlaying' = FALSE
    /\ audioEl' = Rendered(IF audioEl.mounted
                           THEN [audioEl EXCEPT !.paused = TRUE]
                           ELSE audioEl, NullUrl)
    /\ UNCHANGED <<isAnalyzing, podcastMode, intervals, inflight, objectUrls, alerts,
                   calls, fetches, jsonBody, revokedUrls>>

\* handleClear with a reset of isAnalyzing
MutHandleClearResetsIsAnalyzing ==
    /\ ClearVisible
    /\ selectedFile' = Null
    /\ pastedText' = <<>>
    /\ results' = <<>>
    /\ uploadProgress' = 0
    /\ audioUrl' = NullUrl
    /\ isPlaying' = FALSE
    /\ isAnalyzing' = FALSE
    /\ audioEl' = Rendered(IF audioEl.mounted
                           THEN [audioEl EXCEPT !.paused = TRUE, !.currentTime = 0]
                           ELSE audioEl, NullUrl)
    /\ UNCHANGED <<podcastMode, intervals, inflight, objectUrls, alerts,
                   calls, fetches, jsonBody, revokedUrls>>

\* handleClear with a reset of podcastMode
MutHandleClearResetsPodcastMode ==
    /\ ClearVisible
    /\ selectedFile' = Null
    /\ pastedText' = <<>>
    /\ results' = <<>>
    /\ uploadProgress' = 0
    /\ audioUrl' = NullUrl
    /\ isPlaying' = FALSE
    /\ podcastMode' = FALSE
    /\ audioEl' = Rendered(IF audioEl.mounted
                           THEN [audioEl EXCEPT !.paused = TRUE, !.currentTime = 0]
                           ELSE audioEl, NullUrl)
    /\ UNCHANGED <<isAnalyzing, intervals, inflight, objectUrls, alerts,
                   calls, fetches, jsonBody, revokedUrls>>

\* handleClear with a cancellation of the requests in flight
MutHandleClearCancels ==
    /\ ClearVisible
    /\ selectedFile' = Null
    /\ pastedText' = <<>>
    /\ results' = <<>>
    /\ uploadProgress' = 0
    /\ audioUrl' = NullUrl
    /\ isPlaying' = FALSE
    /\ inflight' = <<>>
    /\ isAnalyzing' = FALSE
    /\ audioEl' = Rendered(IF audioEl.mounted
                           THEN [audioEl EXCEPT !.paused = TRUE, !.currentTime = 0]
                           ELSE audioEl, NullUrl)
    /\ UNCHANGED <<podcastMode, intervals, objectUrls, alerts, calls, fetches, jsonBody,
                   revokedUrls>>

handleClear ==
    /\ ClearVisible
    /\ selectedFile' = Null
    /\ pastedText' = <<>>
    /\ results' = <<>>
    /\ uploadProgress' = 0
    /\ audioUrl' = NullUrl
    /\ isPlaying' = FALSE
    /\ audioEl' = Rendered(IF audioEl.mounted
                           THEN [audioEl EXCEPT !.paused = TRUE, !.currentTime = 0]
                           ELSE audioEl, NullUrl)
    /\ UNCHANGED <<isAnalyzing, podcastMode, intervals, inflight, objectUrls, alerts,
                   calls, fetches, jsonBody, revokedUrls>>

\* togglePlayPause: nothing without an element behind audioRef; play() and
\* pause() also raise onPlay / onPause, which set isPlaying to the same value
MutTogglePlayPauseNoRefTest ==
    /\ audioEl' = [audioEl EXCEPT !.paused = isPlaying]
    /\ isPlaying' = ~isPlaying
    /\ UNCHANGED <<selectedFile, pastedText, isAnalyzing, results, uploadProgress,
                   podcastMode, audioUrl, intervals, inflight, objectUrls, alerts, calls,
                   fetches, jsonBody, revokedUrls>>

togglePlayPause ==
    IF audioEl.mounted
    THEN /\ audioEl' = [audioEl EXCEPT !.paused = isPlaying]
         /\ isPlaying' = ~isPlaying
         /\ UNCHANGED <<selectedFile, pastedText, isAnalyzing, results, uploadProgress,
                        podcastMode, audioUrl, intervals, inflight, objectUrls, alerts,
                        calls, fetches, jsonBody, revokedUrls>>
    ELSE UNCHANGED vars

\* a click on the play button, which is rendered with the player
PlayClick ==
    /\ audioUrl # NullUrl
    /\ togglePlayPause

\* playback advances the position of a playing element
AudioAdvances ==
    /\ audioEl.mounted
    /\ ~audioEl.paused
    /\ audioEl.currentTime = 0
    /\ audioEl' = [audioEl EXCEPT !.currentTime = 1]
    /\ UNCHANGED <<selectedFile, pastedText, isAnalyzing, results, uploadProgress,
                   podcastMode, audioUrl, isPlaying, intervals, inflight, objectUrls,
                   alerts, calls, fetches, jsonBody, revokedUrls>>

\* playback reaches the end: the element pauses; onPause and onEnded
AudioEnded ==
    /\ audioEl.mounted
    /\ ~audioEl.paused
    /\ audioEl' = [audioEl EXCEPT !.paused = TRUE, !.currentTime = 1]
    /\ isPlaying' = FALSE
    /\ UNCHANGED <<selectedFile, pastedText, isAnalyzing, results, uploadProgress,
                   podcastMode, audioUrl, intervals, inflight, objectUrls, alerts, calls,
                   fetches, jsonBody, revokedUrls>>

(***************************************************************************)
(* Specifications.                                                         *)
(***************************************************************************)
\* the user's input actions; a file is taken while fewer than MaxIntervals
\* progress timers are running
UserInput ==
    \/ \E file \in FileTypes : intervals < MaxIntervals /\ handleFileChange(file)
    \/ \E file \in FileTypes : intervals < MaxIntervals /\ handleDrop(file)
    \/ \E text \in Texts : setPastedText(text)
    \/ togglePodcastMode

Settles ==
    \/ \E i \in DOMAIN inflight : FetchRejects(i)
    \/ \E i \in DOMAIN inflight : ResponseNotOk(i)
    \/ \E i \in DOMAIN inflight : BodyRejects(i)
    \/ \E i \in DOMAIN inflight : BlobResolves(i)
    \/ \E i \in DOMAIN inflight, data \in Payloads : JsonResolves(i, data)

Player ==
    \/ PlayClick
    \/ AudioAdvances
    \/ AudioEnded

\* the application driven through its user interface
Next ==
    \/ UserInput
    \/ AnalyzeClick
    \/ Settles
    \/ handleClear
    \/ Player
    \/ IntervalTick

Spec == Init /\ [][Next]_vars

\* handleAnalyze invoked without the button (a script, a test, a key handler),
\* at any moment, on pasted text in either mode
NextDirect ==
    \/ \E text \in Texts : setPastedText(text)
    \/ togglePodcastMode
    \/ AnalyzeDirect
    \/ Settles
    \/ handleClear

SpecDirect == Init /\ [][NextDirect]_vars

\* submission and completion, with every dispatched request settled
\* eventually: the browser settles each fetch and each body read with a
\* response or an error.  The audio player, which neither reads nor writes
\* isAnalyzing or the requests, is left alone.
NextSubmission ==
    \/ UserInput
    \/ AnalyzeClick
    \/ Settles
    \/ handleClear
    \/ IntervalTick

FairSpec == Init /\ [][NextSubmission]_vars /\ WF_vars(Settles)

\* narration and the player, with togglePlayPause also invoked without its
\* button (which is rendered only while audioUrl is set), on pasted text
NextPlayer ==
    \/ \E text \in Texts : setPastedText(text)
    \/ togglePodcastMode
    \/ AnalyzeClick
    \/ Settles
    \/ handleClear
    \/ togglePlayPause
    \/ AudioAdvances
    \/ AudioEnded

SpecPlayer == Init /\ [][NextPlayer]_vars

\* the simulated upload on its own: files taken while timers of earlier
\* files are still running (at most MaxTimers at a time), clears and text
\* edits in between; the browser runs every interval callback that is due
NextUpload ==
    \/ \E file \in FileTypes : intervals < MaxTimers /\ handleFileChange(file)
    \/ \E file \in FileTypes : intervals < MaxTimers /\ handleDrop(file)
    \/ \E text \in Texts : setPastedText(text)
    \/ handleClear
    \/ IntervalTick

FairUpload == Init /\ [][NextUpload]_vars /\ WF_vars(IntervalTick)

(***************************************************************************)
(* The transformation on its own: one standard-mode text submission is in  *)
(* flight, and the server answers it with a body drawn from ProbeBodies.   *)
(***************************************************************************)
ProbeIds == {Undefined, Str(<<"7">>), Str(<<>>), Num(0)}
ProbeTexts == {Undefined, Str(<<>>), Str(<<"a">>), Str(<<"b">>)}
ProbeExplanations == {Undefined, Str(<<>>), Str(<<"a">>)}
ProbeCategories ==
    {Undefined, JsNull, Str(<<>>), Str(<<"H", "I", "G", "H">>), Str(<<"L", "o", "w">>),
     Str(<<"X", "x">>), Num(5)}

ProbeRecords ==
    {ClauseRecord(id, text, clause_text, risk_level, severity, explanation, reason) :
        id \in ProbeIds, text \in ProbeTexts, clause_text \in ProbeTexts,
        risk_level \in ProbeCategories, severity \in ProbeCategories,
        explanation \in ProbeExplanations, reason \in ProbeExplanations}

\* a probe record after 0..MaxClauses ordinary records, and the bodies that
\* are no object with an array of clause objects
ProbeBodies ==
    {DataObject(ArrayOf([j \in 1..k |-> HighRecord] \o <<rec>>)) :
        k \in 0..MaxClauses, rec \in ProbeRecords}
    \cup {DataObject(ArrayOf(<<>>)), DataObject(NoArray("undefined")),
          DataObject(NoArray("null")), DataObject(NoArray("string")),
          DataNonObject("null"), DataNonObject("number"),
          DataObject(ArrayOf(<<NonObjectEntry("null")>>)),
          DataObject(ArrayOf(<<NonObjectEntry("number")>>)),
          DataUnparseable}

\* what an earlier standard analysis has left in results
PriorResults == <<transformClause(AltRecord, 0)>>

InitTransform ==
    /\ selectedFile = Null
    /\ pastedText = <<" ", "a">>
    /\ isAnalyzing = TRUE
    /\ results \in {<<>>, PriorResults}
    /\ uploadProgress = 0
    /\ podcastMode = FALSE
    /\ audioUrl = NullUrl
    /\ isPlaying = FALSE
    /\ audioEl = NoElement
    /\ intervals = 0
    /\ inflight = <<RequestOf(FALSE, Null, <<" ", "a">>)>>
    /\ objectUrls = 0
    /\ alerts = 0
    /\ calls = 1
    /\ fetches = 1
    /\ jsonBody \in ProbeBodies
    /\ revokedUrls = {}

\* await response.json(): it rejects on a body that is no JSON text, and
\* otherwise resolves with the parsed body
NextTransform ==
    \/ jsonBody = DataUnparseable /\ BodyRejects(1)
    \/ jsonBody # DataUnparseable /\ JsonResolves(1, jsonBody)

SpecTransform == InitTransform /\ [][NextTransform]_vars

(***************************************************************************)
(* Properties.                                                             *)
(***************************************************************************)
\* text is empty or whitespace only
IsBlank(text) == \A k \in DOMAIN text : text[k] \in {" ", "\t", "\n"}

\* a step that invokes handleAnalyze, one that calls fetch, one that settles a request
Invokes == calls' = calls + 1
Dispatches == fetches' = fetches + 1
Completes == Len(inflight') = Len(inflight) - 1

\* C1: whenever handleAnalyze passes its guard it dispatches exactly one
\* request, the one the table gives for (podcastMode, file set or not):
\* standard+file -> multipart POST /get_clauses; standard+text -> JSON {text:
\* pastedText} POST /get_clauses; podcast+file -> multipart POST
\* /conversation_clauses_file; podcast+text -> JSON {text: pastedText} POST
\* /conversation_clauses; with a file and pasted text both present, the file.
C1_DispatchTable ==
    [][(Invokes /\ ~(selectedFile = Null /\ IsBlank(pastedText))) =>
        /\ Len(inflight') = Len(inflight) + 1
        /\ SubSeq(inflight', 1, Len(inflight)) = inflight
        /\ LET r == inflight'[Len(inflight')]
           IN  /\ r.url = (IF podcastMode
                           THEN IF selectedFile # Null
                                THEN "/conversation_clauses_file"
                                ELSE "/conversation_clauses"
                           ELSE "/get_clauses")
               /\ selectedFile # Null => r.body = "multipart" /\ r.file = selectedFile
               /\ selectedFile = Null => r.body = "json" /\ r.text = pastedText]_vars

\* a podcast file request is in flight while non-blank text is pasted too, and a
\* standard text request has been dispatched as well
C1_Witness ==
    /\ selectedFile # Null
    /\ ~IsBlank(pastedText)
    /\ Len(inflight) = 1
    /\ inflight[1].url = "/conversation_clauses_file"
    /\ inflight[1].body = "multipart"
    /\ inflight[1].file = selectedFile
    /\ fetches = 2

\* C2: handleAnalyze invoked with selectedFile null and pastedText empty or
\* whitespace only dispatches no request, raises no alert and leaves every
\* state variable unchanged.
C2_GuardNoop ==
    [][(Invokes /\ selectedFile = Null /\ IsBlank(pastedText)) =>
        UNCHANGED <<isAnalyzing, results, audioUrl, selectedFile, pastedText, podcastMode,
                    uploadProgress, isPlaying, audioEl, inflight, fetches, alerts,
                    objectUrls>>]_vars

\* handleAnalyze has been invoked on whitespace-only text and has returned at
\* its guard: no fetch was made
C2_Witness ==
    /\ calls = 1
    /\ fetches = 0
    /\ selectedFile = Null
    /\ pastedText = <<" ">>
    /\ ~isAnalyzing
    /\ inflight = <<>>

\* C3: with submissions issued only through the Analyze button, at most one
\* request is in flight in every reachable state, and isAnalyzing is true
\* exactly when a request is in flight.
C3_SingleFlight ==
    /\ Len(inflight) <= 1
    /\ isAnalyzing <=> Len(inflight) = 1

\* a request is in flight, the second of the run, and the button is disabled
\* although input is present
C3_Witness ==
    /\ isAnalyzing
    /\ Len(inflight) = 1
    /\ fetches = 2
    /\ selectedFile # Null

\* C4: every request in flight is settled by exactly one continuation, every
\* completion (success, non-2xx, transport error, payload error) sets
\* isAnalyzing to false, and, every dispatched request being settled
\* eventually, isAnalyzing = true leads to isAnalyzing = false.
C4_ResetsIsAnalyzing ==
    /\ [][/\ Completes => ~isAnalyzing'
          /\ Len(inflight') < Len(inflight) => Completes
          /\ Len(inflight) + alerts + objectUrls <= fetches]_vars
    /\ (isAnalyzing ~> ~isAnalyzing)

\* a failed and a successful submission have both completed, and isAnalyzing is false
C4_Witness ==
    /\ fetches = 2
    /\ alerts = 1
    /\ objectUrls = 1
    /\ inflight = <<>>
    /\ ~isAnalyzing

\* C5: a submission that fails with a non-2xx status or a transport error, in
\* either mode and for either input kind, raises exactly one alert, ends with
\* isAnalyzing false and leaves results and audioUrl as they were.
C5_FailureKeepsResults ==
    [][(\E i \in DOMAIN inflight : FetchRejects(i) \/ ResponseNotOk(i)) =>
        /\ alerts' = alerts + 1
        /\ ~isAnalyzing'
        /\ results' = results
        /\ audioUrl' = audioUrl
        /\ Completes]_vars

\* a submission failed after an analysis had succeeded: the clauses are still there
C5_Witness ==
    /\ alerts = 1
    /\ fetches = 2
    /\ inflight = <<>>
    /\ ~isAnalyzing
    /\ Len(results) > 0

\* C6: a successful narrated completion yields audioUrl = a newly created
\* handle, results = [] and isAnalyzing = false; a successful standard
\* completion yields results = exactly the transformed clauses of that
\* response (nothing kept of the previous result set), audioUrl = null and
\* isAnalyzing = false.
C6_SuccessState ==
    [][/\ (Completes /\ objectUrls' # objectUrls) =>
            \A i \in DOMAIN inflight : BlobResolves(i) =>
                /\ objectUrls' = objectUrls + 1
                /\ audioUrl' = ObjectUrl(objectUrls')
                /\ audioUrl' # audioUrl /\ audioUrl' # NullUrl
                /\ results' = <<>>
                /\ ~isAnalyzing'
       /\ (Completes /\ objectUrls' = objectUrls /\ alerts' = alerts) =>
            \A i \in DOMAIN inflight, d \in Payloads : JsonResolves(i, d) =>
                /\ d.t = "object"
                /\ Len(results') = Len(d.clauses.items)
                /\ \A k \in DOMAIN results' :
                       results'[k] = transformClause(d.clauses.items[k], k - 1)
                /\ audioUrl' = NullUrl
                /\ ~isAnalyzing']_vars

\* a standard analysis succeeded after a narration: clauses shown, audio gone
C6_Witness ==
    /\ objectUrls = 1
    /\ fetches = 2
    /\ alerts = 0
    /\ inflight = <<>>
    /\ Len(results) > 0
    /\ audioUrl = NullUrl
    /\ ~isAnalyzing

\* C7: in every reachable state, results is never non-empty while audioUrl is
\* non-null.
C7_MutuallyExclusive == ~(Len(results) > 0 /\ audioUrl # NullUrl)

\* a narration succeeded after an analysis had filled results: results is empty
C7_Witness ==
    /\ audioUrl # NullUrl
    /\ results = <<>>
    /\ fetches = 2
    /\ alerts = 0
    /\ objectUrls = 1
    /\ inflight = <<>>

\* C8, as claimed: a submission in narrated mode clears results at once and a
\* submission in standard mode clears audioUrl at once, whatever the outcome.
C8_ClearsAtDispatch ==
    [][Dispatches => IF podcastMode THEN results' = <<>> ELSE audioUrl' = NullUrl]_vars

\* C8, amended: dispatching changes neither results nor audioUrl; a narrated
\* submission empties results, and a standard one nulls audioUrl, when it
\* completes successfully, and a failed one changes neither.
C8_ClearsOnSuccessOnly ==
    [][/\ Dispatches => results' = results /\ audioUrl' = audioUrl
       /\ (Completes /\ objectUrls' = objectUrls + 1) => results' = <<>>
       /\ (Completes /\ objectUrls' = objectUrls /\ alerts' = alerts) => audioUrl' = NullUrl
       /\ (Completes /\ alerts' = alerts + 1) =>
              results' = results /\ audioUrl' = audioUrl]_vars

\* a narrated submission was dispatched while results was non-empty, and failed:
\* the clauses are still shown
C8_Witness ==
    /\ podcastMode
    /\ Len(results) > 0
    /\ alerts = 1
    /\ fetches = 2
    /\ objectUrls = 0
    /\ inflight = <<>>

\* the record with the same values under text / risk_level / explanation
Renamed(rec) ==
    ClauseRecord(rec.id, rec.clause_text, Undefined, rec.severity, Undefined,
                 rec.reason, Undefined)

UsesAlternativeNames(rec) ==
    /\ rec.t = "object"
    /\ rec.text = Undefined /\ rec.risk_level = Undefined /\ rec.explanation = Undefined

\* the response has been transformed into results
Transformed == inflight = <<>> /\ alerts = 0 /\ jsonBody.clauses.t = "array"

\* C9: a clause record carrying its values under clause_text / severity /
\* reason produces the same Clause as the record carrying the same values
\* under text / risk_level / explanation.
C9_AlternativeNames ==
    Transformed =>
        \A k \in DOMAIN results :
            LET rec == jsonBody.clauses.items[k]
            IN  UsesAlternativeNames(rec) =>
                    /\ ~ClauseThrows(Renamed(rec))
                    /\ results[k] = transformClause(Renamed(rec), k - 1)
                    /\ Truthy(rec.clause_text) => results[k].text = rec.clause_text
                    /\ Truthy(rec.reason) => results[k].explanation = rec.reason

\* a record with clause_text "a", severity "Low" and reason "a" only has become
\* the Clause (text "a", riskLevel "low", explanation "a")
C9_Witness ==
    /\ Transformed
    /\ \E k \in DOMAIN results :
        /\ UsesAlternativeNames(jsonBody.clauses.items[k])
        /\ jsonBody.clauses.items[k].severity = Str(<<"L", "o", "w">>)
        /\ results[k].text = Str(<<"a">>)
        /\ results[k].riskLevel = Str(<<"l", "o", "w">>)
        /\ results[k].explanation = Str(<<"a">>)

NonEmptyString(v) == v.t = "string" /\ v.s # <<>>
AbsentOrEmpty(v) == v.t \in {"undefined", "null"} \/ (v.t = "string" /\ v.s = <<>>)

\* C10: the stored riskLevel is the lowercase form of risk_level when that is
\* present and non-empty, else of severity when that is present and non-empty,
\* else 'medium'; "HIGH" is stored as "high", and a value outside
\* high/medium/low passes through lowercased.
C10_RiskLevel ==
    Transformed =>
        \A k \in DOMAIN results :
            LET rec == jsonBody.clauses.items[k]
                level == results[k].riskLevel
            IN  /\ NonEmptyString(rec.risk_level) =>
                       level = Str(toLowerCase(rec.risk_level.s))
                /\ (AbsentOrEmpty(rec.risk_level) /\ NonEmptyString(rec.severity)) =>
                       level = Str(toLowerCase(rec.severity.s))
                /\ (AbsentOrEmpty(rec.risk_level) /\ AbsentOrEmpty(rec.severity)) =>
                       level = Str(<<"m", "e", "d", "i", "u", "m">>)
                /\ rec.risk_level = Str(<<"H", "I", "G", "H">>) =>
                       level = Str(<<"h", "i", "g", "h">>)
                /\ rec.risk_level = Str(<<"X", "x">>) => level = Str(<<"x", "x">>)

\* risk_level "Xx" with severity "HIGH" has been stored as "xx", after a record
\* whose "HIGH" was stored as "high"
C10_Witness ==
    /\ Transformed
    /\ Len(results) = 2
    /\ jsonBody.clauses.items[2].risk_level = Str(<<"X", "x">>)
    /\ jsonBody.clauses.items[2].severity = Str(<<"H", "I", "G", "H">>)
    /\ results[2].riskLevel = Str(<<"x", "x">>)
    /\ results[1].riskLevel = Str(<<"h", "i", "g", "h">>)

RiskLevels ==
    {Str(<<"h", "i", "g", "h">>), Str(<<"m", "e", "d", "i", "u", "m">>),
     Str(<<"l", "o", "w">>)}

\* C11: every Clause stored in results has a riskLevel among high, medium and
\* low, whatever category strings the server returned.
C11_ClosedRiskLevels ==
    \A k \in DOMAIN results : results[k].riskLevel \in RiskLevels

\* C12: immediately after handleClear, from any state, selectedFile is null,
\* pastedText is '', results is empty, audioUrl is null, isPlaying is false and
\* uploadProgress is 0, and an audio element that was mounted has been paused
\* and rewound to position 0.
C12_ClearResets ==
    [][handleClear =>
          /\ selectedFile' = Null
          /\ pastedText' = <<>>
          /\ results' = <<>>
          /\ audioUrl' = NullUrl
          /\ isPlaying' = FALSE
          /\ uploadProgress' = 0
          /\ audioEl.mounted => (audioEl'.paused /\ audioEl'.currentTime = 0)]_vars

\* the only request was a narration that succeeded, so that an element was
\* mounted, and a clear has then emptied everything: audioUrl is null again
\* and the element is stopped at 0
C12_Witness ==
    /\ fetches = 1
    /\ objectUrls = 1
    /\ inflight = <<>>
    /\ audioUrl = NullUrl
    /\ selectedFile = Null
    /\ pastedText = <<>>
    /\ results = <<>>
    /\ ~isPlaying
    /\ uploadProgress = 0
    /\ ~audioEl.mounted
    /\ audioEl.paused
    /\ audioEl.currentTime = 0

\* C13 as stated: after handleClear isAnalyzing is false, also when a request
\* is in flight.
C13_ClearResetsIsAnalyzing ==
    [][handleClear => ~isAnalyzing']_vars

\* C13: handleClear leaves isAnalyzing and the request in flight as they are:
\* after a clear isAnalyzing is still true exactly while a request is in
\* flight, and only the completion of that request sets it to false.
C13_ClearKeepsIsAnalyzing ==
    [][handleClear =>
          /\ isAnalyzing' = isAnalyzing
          /\ inflight' = inflight
          /\ isAnalyzing' <=> (inflight' # <<>>)]_vars

\* a file was submitted and a clear has emptied the form while the request is
\* in flight: isAnalyzing is still true
C13_Witness ==
    /\ isAnalyzing
    /\ Len(inflight) = 1
    /\ inflight[1].file # Null
    /\ selectedFile = Null
    /\ pastedText = <<>>
    /\ uploadProgress = 0

\* the object URLs created and not released
LiveUrls == {ObjectUrl(k) : k \in 1..objectUrls} \ revokedUrls

\* C14: a handleClear that finds an object URL in audioUrl releases it
\* (URL.revokeObjectURL), so that it is no longer live after the clear.
C14_ClearReleasesHandle ==
    [][(handleClear /\ audioUrl # NullUrl) =>
          (audioUrl \in revokedUrls' /\ audioUrl \notin LiveUrls')]_vars

\* C15: a successful completion that replaces the object URL held in audioUrl,
\* by a new one (narration) or by null (standard analysis), releases the
\* replaced URL, so that the only live object URL is the one in audioUrl.
C15_SupersededHandleReleased ==
    [][(Completes /\ audioUrl # NullUrl /\ audioUrl' # audioUrl) =>
          (audioUrl \in revokedUrls' /\ LiveUrls' \subseteq {audioUrl'})]_vars

\* no audio is held, no element is mounted and nothing is playing
NoPlayer == audioUrl = NullUrl /\ ~audioEl.mounted /\ ~isPlaying

SelectsFile == \E file \in FileTypes : handleFileChange(file) \/ handleDrop(file)

\* the textarea is edited
EditsText == \E text \in Texts : setPastedText(text)

\* C17: results and audioUrl change only in a successful completion or in a
\* clear; the podcast toggle, a file selection or drop and a text edit leave
\* both unchanged; a file selection leaves pastedText unchanged and a text edit
\* leaves selectedFile unchanged.
C17_ResultFrame ==
    [][/\ (results' # results \/ audioUrl' # audioUrl) =>
              (handleClear \/ (Completes /\ alerts' = alerts))
       /\ (results' = results /\ audioUrl' = audioUrl)
              \/ ~(togglePodcastMode \/ SelectsFile \/ EditsText)
       /\ pastedText' = pastedText \/ ~SelectsFile
       /\ selectedFile' = selectedFile \/ ~EditsText]_vars

\* the results of the only request, a standard one, are still on display
\* although podcast mode has been switched on since its dispatch, a file is
\* selected and the text is a blank
C17_Witness ==
    /\ fetches = 1
    /\ inflight = <<>>
    /\ Len(results) > 0
    /\ selectedFile # Null
    /\ pastedText = <<" ">>
    /\ podcastMode
    /\ audioUrl = NullUrl

\* C18: podcastMode is changed only by the podcast toggle; a clear, the
\* dispatch and the completion of an analysis, a file selection and a text
\* edit leave it unchanged.
C18_ModeFrame ==
    [][/\ podcastMode' # podcastMode => togglePodcastMode
       /\ podcastMode' = podcastMode
              \/ ~(handleClear \/ Invokes \/ Completes \/ SelectsFile \/ EditsText)]_vars

\* a narration was requested and succeeded, a clear has emptied the form and
\* dropped the audio, and podcast mode is still on
C18_Witness ==
    /\ podcastMode
    /\ fetches = 1
    /\ objectUrls = 1
    /\ inflight = <<>>
    /\ audioUrl = NullUrl
    /\ selectedFile = Null
    /\ pastedText = <<>>

\* C19: no retries: a request is sent only by an invocation of handleAnalyze,
\* one request for one invocation, and a completion, failed or not, sends
\* none; so there are never more requests than invocations.
C19_NoRetry ==
    [][/\ fetches' # fetches =>
              (Invokes /\ fetches' = fetches + 1 /\ Len(inflight') = Len(inflight) + 1)
       /\ Invokes => fetches' <= fetches + 1
       /\ (Completes \/ alerts' # alerts) => (fetches' = fetches /\ calls' = calls)
       /\ fetches' <= calls']_vars

\* the only invocation sent one request, it failed, and nothing is in flight
C19_Witness ==
    /\ calls = 1
    /\ fetches = 1
    /\ alerts = 1
    /\ inflight = <<>>
    /\ ~isAnalyzing

\* the record has none of text, clause_text, risk_level, severity, explanation
\* and reason
LacksFields(rec) ==
    /\ rec.t = "object"
    /\ rec.text = Undefined /\ rec.clause_text = Undefined
    /\ rec.risk_level = Undefined /\ rec.severity = Undefined
    /\ rec.explanation = Undefined /\ rec.reason = Undefined

\* C20: a 2xx standard response with missing fields is not a failure: a body
\* without a clauses field ends with results empty, audioUrl null and no alert;
\* a record lacking the body, the category and the explanation under both of
\* their names is stored with text '', riskLevel 'medium' and explanation '',
\* again without an alert when every record is such a record or an ordinary one.
C20_MissingFieldsNoFailure ==
    inflight = <<>> =>
        /\ jsonBody = DataObject(NoArray("undefined")) =>
               (alerts = 0 /\ results = <<>> /\ audioUrl = NullUrl /\ ~isAnalyzing)
        /\ (/\ jsonBody.t = "object"
            /\ jsonBody.clauses.t = "array"
            /\ \A k \in DOMAIN jsonBody.clauses.items :
                   LET rec == jsonBody.clauses.items[k]
                   IN  LacksFields(rec) \/ rec = HighRecord) =>
               /\ alerts = 0
               /\ Len(results) = Len(jsonBody.clauses.items)
               /\ \A k \in DOMAIN results :
                      LacksFields(jsonBody.clauses.items[k]) =>
                          /\ results[k].text = Str(<<>>)
                          /\ results[k].riskLevel = Str(<<"m", "e", "d", "i", "u", "m">>)
                          /\ results[k].explanation = Str(<<>>)

\* a record without any of the six fields, second in the array, has been
\* stored with the defaults and no alert was raised
C20_Witness ==
    /\ inflight = <<>>
    /\ alerts = 0
    /\ Len(results) = 2
    /\ LacksFields(jsonBody.clauses.items[2])
    /\ results[2].text = Str(<<>>)
    /\ results[2].riskLevel = Str(<<"m", "e", "d", "i", "u", "m">>)
    /\ results[2].explanation = Str(<<>>)
    /\ ~isAnalyzing

\* the body is not an object holding an array of clause objects
Malformed(data) ==
    \/ data.t # "object"
    \/ data.clauses.t # "array"
    \/ \E k \in DOMAIN data.clauses.items : data.clauses.items[k].t # "object"

\* the malformed bodies on which response.json() or the transformation fails:
\* no JSON text, null, a clauses field that is present and no array, and a
\* null entry of the array
FailsOn(data) ==
    \/ data.t \in {"unparseable", "null"}
    \/ data.t = "object" /\ data.clauses.t \notin {"undefined", "null", "array"}
    \/ /\ data.t = "object"
       /\ data.clauses.t = "array"
       /\ \E k \in DOMAIN data.clauses.items :
              data.clauses.items[k].t \in {"null", "undefined"}

\* the completion raises the failure signal and leaves results and audioUrl
FailureSignal ==
    /\ alerts' = alerts + 1
    /\ results' = results
    /\ audioUrl' = audioUrl
    /\ ~isAnalyzing'

\* C21 as stated: every malformed body of a 2xx response, a missing or
\* non-array clauses field and a non-object clause entry included, ends in the
\* failure signal with results and audioUrl unmodified.
C21_MalformedIsFailure ==
    [][(Completes /\ Malformed(jsonBody)) => FailureSignal]_vars

\* C21: a body that is no JSON text, a null body, a clauses field that is
\* present but no array, and a null clause entry end in the failure signal
\* with results and audioUrl unmodified; the other malformed bodies are
\* accepted without an alert: a missing or null clauses field (and a body that
\* is a number) gives empty results, and an array with a number entry gives
\* one clause per entry.
C21_MalformedPayload ==
    [][(Completes /\ Malformed(jsonBody)) =>
          IF FailsOn(jsonBody)
          THEN FailureSignal
          ELSE /\ alerts' = alerts
               /\ audioUrl' = NullUrl
               /\ ~isAnalyzing'
               /\ Len(results') = Len(jsonBody.clauses.items)]_vars

\* a response whose clauses field is a string has failed, and the results of
\* the earlier analysis are still there
C21_Witness ==
    /\ jsonBody = DataObject(NoArray("string"))
    /\ inflight = <<>>
    /\ alerts = 1
    /\ results = PriorResults
    /\ ~isAnalyzing

\* the text the k-th clause of results is to carry: that of the k-th record
TextOf(rec) ==
    IF NonEmptyString(rec.text) THEN rec.text
    ELSE IF NonEmptyString(rec.clause_text) THEN rec.clause_text
    ELSE Str(<<>>)

\* C22: results has the length and the order of the server's clauses, and the
\* i-th Clause has the server's id when one is given (a non-empty string or a
\* number other than 0: what clause.id || ... takes as given); without one,
\* the id '' and the id 0 included, it has the fallback String(i): "1" for the
\* first clause, "2" for the second.
C22_IdsAndOrder ==
    Transformed =>
        /\ Len(results) = Len(jsonBody.clauses.items)
        /\ \A k \in DOMAIN results :
               LET rec == jsonBody.clauses.items[k]
                   given == \/ NonEmptyString(rec.id)
                            \/ (rec.id.t = "number" /\ rec.id.n # 0)
               IN  /\ results[k].text = TextOf(rec)
                   /\ given => results[k].id = rec.id
                   /\ ~given => results[k].id = String(k)
                   /\ (~given /\ k = 1) => results[k].id = Str(<<"1">>)
                   /\ (~given /\ k = 2) => results[k].id = Str(<<"2">>)

\* two clauses replaced the earlier results: the first has kept the server's
\* id "7" and the second, whose record has the id 0, has the fallback "2"
C22_Witness ==
    /\ Transformed
    /\ Len(results) = 2
    /\ results[1].id = Str(<<"7">>)
    /\ jsonBody.clauses.items[2].id = Num(0)
    /\ results[2].id = Str(<<"2">>)
    /\ results[1].text = Str(<<"a">>)
    /\ results[2].text = Str(<<"b">>)

\* C23: in every reachable state selectedFile is null or a file whose declared
\* type is PDF, DOCX or plain text, whether it came through the file input or
\* through a drop.
C23_AcceptedTypes == selectedFile \in {Null, PdfType, DocxType, TxtType}

\* C24: handleAnalyze has no guard of its own against a request in flight:
\* invoked with input while requests are in flight it sends one more, and the
\* completion of one of several requests in flight sets isAnalyzing to false
\* while the others are still pending.
C24_Reentrant ==
    [][/\ (Invokes /\ inflight # <<>> /\ ~NoInput(selectedFile, pastedText)) =>
              /\ Dispatches
              /\ Len(inflight') = Len(inflight) + 1
              /\ isAnalyzing'
       /\ (Completes /\ Len(inflight) > 1) =>
              (~isAnalyzing' /\ inflight' # <<>>)]_vars

\* two requests were sent, one has completed and the other is still in
\* flight, with isAnalyzing false
C24_Witness ==
    /\ fetches = 2
    /\ Len(inflight) = 1
    /\ ~isAnalyzing

\* the form is empty: no file and no text
EmptyInputs == selectedFile = Null /\ pastedText = <<>>

\* C25: no user action cancels a request: the requests in flight change only
\* by an invocation of handleAnalyze and by a completion, so a clear, a file
\* selection, a text edit and a mode toggle leave them; and a request that
\* succeeds while the form is empty is applied all the same: a narration sets
\* audioUrl to a new object URL, a standard analysis sets results to the
\* transformed clauses.
C25_NoCancellation ==
    [][/\ inflight' = inflight \/ Invokes \/ Completes
       /\ (inflight' = inflight /\ isAnalyzing' = isAnalyzing)
              \/ ~(handleClear \/ SelectsFile \/ EditsText \/ togglePodcastMode)
       /\ (Completes /\ alerts' = alerts /\ EmptyInputs) =>
              \E i \in DOMAIN inflight :
                  /\ inflight' = Remove(inflight, i)
                  /\ IF inflight[i].podcast
                     THEN audioUrl' = ObjectUrl(objectUrls + 1) /\ objectUrls' = objectUrls + 1
                     ELSE \E data \in Payloads :
                              /\ results' = transformedResults(data)
                              /\ audioUrl' = NullUrl]_vars

\* the only request was sent, a clear emptied the form while it was in
\* flight, and its clauses are now in results
C25_Witness ==
    /\ fetches = 1
    /\ inflight = <<>>
    /\ EmptyInputs
    /\ Len(results) > 0
    /\ alerts = 0

\* C26: mode and input of a submission are fixed at dispatch: the request
\* carries the podcastMode, the file and the text of the moment handleAnalyze
\* is invoked, toggles and edits made while it is in flight do not alter it,
\* and its response is read as audio or as clause JSON by the mode it carries,
\* whatever podcastMode is by then.
C26_FixedAtDispatch ==
    [][/\ Dispatches =>
              LET request == inflight'[Len(inflight')]
              IN  /\ request.podcast = podcastMode
                  /\ request.file = selectedFile
                  /\ request.file = Null => request.text = pastedText
       /\ inflight' = inflight
              \/ ~(togglePodcastMode \/ SelectsFile \/ EditsText)
       /\ (Completes /\ alerts' = alerts) =>
              \E i \in DOMAIN inflight :
                  /\ inflight' = Remove(inflight, i)
                  /\ IF inflight[i].podcast
                     THEN /\ objectUrls' = objectUrls + 1
                          /\ audioUrl' = ObjectUrl(objectUrls')
                          /\ results' = <<>>
                     ELSE /\ objectUrls' = objectUrls
                          /\ audioUrl' = NullUrl]_vars

\* the only request was a narration and has been read as audio, although
\* podcast mode is now off and the text is no longer the one that was sent
C26_Witness ==
    /\ fetches = 1
    /\ inflight = <<>>
    /\ audioUrl = ObjectUrl(1)
    /\ ~podcastMode
    /\ selectedFile = Null
    /\ pastedText = <<" ">>

\* C27: in every reachable state isPlaying implies that audioUrl holds an
\* object URL.
C27_PlayingNeedsAudio == isPlaying => audioUrl # NullUrl

\* a step that sets uploadProgress back to 0: a file is taken, or a clear
ResetsProgress == handleClear \/ SelectsFile

\* C28: uploadProgress is always a multiple of 10 from 0 to 100, also with
\* several timers running and with clears in between; the callback that
\* observes uploadProgress >= 100 stops its timer and no other callback does;
\* and every timer stops in the end: unless uploadProgress is reset again and
\* again, no timer is left running.
C28_UploadProgress ==
    /\ [](uploadProgress \in {10 * k : k \in 0..10})
    /\ [][/\ intervals' < intervals => (uploadProgress >= 100 /\ intervals' = intervals - 1)
          /\ (IntervalTick /\ uploadProgress >= 100) =>
                 (intervals' = intervals - 1 /\ uploadProgress' = 100)
          /\ (IntervalTick /\ uploadProgress < 100) =>
                 (intervals' = intervals /\ uploadProgress' = uploadProgress + 10)]_vars
    /\ ([]<><<ResetsProgress>>_vars) \/ <>[](intervals = 0)

\* a second file was taken before the first simulation finished: two timers
\* are running and the progress has come to 100
C28_Witness ==
    /\ intervals = 2
    /\ uploadProgress = 100
    /\ selectedFile # Null

====
